---- MODULE Spec2Model ----
(***************************************************************************)
(* depsaw: trigger scores over a Bazel dependency graph and the ranking   *)
(* of removable dependencies (src/algorithms).                            *)
(*                                                                         *)
(* Strings the code slices, splits or compares by prefix are sequences of *)
(* one-character strings; graph labels are TLA+ strings with their        *)
(* characters given by Chars.                                             *)
(***************************************************************************)
EXTENDS Integers, Sequences, FiniteSets, TLC

VARIABLES
    target,                      \* the requested target (argument of both entry points)
    deps_graph,                  \* BazelDependencyGraph
    repo,                        \* GitRepo
    commits_by_target,           \* HashMap<String, HashSet<String>>
    commits_specific_to_target,  \* HashMap<String, HashSet<String>>
    score_by_target,             \* HashMap<String, Rc<RwLock<Target>>>
    todo,                        \* labels the wildcard loop has not yet iterated
    stack,                       \* activation records of calculate_trigger_scores_map_inner
    pc,                          \* position of the call
    result,                      \* HashMap<String, ResolvedTarget> returned on Ok
    duplicate_deps,              \* find_duplicate_deps(target) inside most_unique_triggers
    unique_deps,                 \* get_unique_deps(dep) per candidate inside most_unique_triggers
    deps,                        \* Vec<Dependency> returned by most_unique_triggers
    revwalk,                     \* git.rs: the commits the revwalk yields, HEAD first
    max_history_length,          \* git.rs: argument of get_file_commit_history
    git_i,                       \* git.rs: the counter i of the walk
    git_next,                    \* git.rs: position of the revwalk iterator
    file_commits,                \* git.rs: DashMap<String, GitFile>
    git_pc,                      \* git.rs: position of get_file_commit_history
    build_deps,                  \* the deps attribute of the analyzed target in its BUILD file
    analyze_deps,                \* main.rs: deps returned by get_deps
    test_targets,                \* main.rs: the --test arguments
    dep_idx,                     \* main.rs: position of the loop over deps
    test_idx,                    \* position of the loop over test_targets
    success,                     \* the local success of test_passes_without_dep
    removable_deps,              \* main.rs: removable_deps
    commands,                    \* the external commands run so far, with their outcome
    ops_pc,                      \* position of the Analyze command
    an_commits_by_target,        \* analyzer.rs: HashMap<String, HashSet<String>>
    an_score_by_target,          \* analyzer.rs: HashMap<String, Rc<Target>>
    an_todo,                     \* analyzer.rs: labels the wildcard loop has not yet iterated
    an_stack,                    \* analyzer.rs: activation records of the inner function
    an_pc,                       \* analyzer.rs: position of calculate_trigger_scores_map
    an_result,                   \* analyzer.rs: HashMap<String, ResolvedTarget> returned on Ok
    trigger_score,               \* main.rs: the number calculate_trigger_scores returns
    main_pc                      \* main.rs: position of calculate_trigger_scores

alg_vars == <<target, deps_graph, repo, commits_by_target, commits_specific_to_target,
              score_by_target, todo, stack, pc, result, duplicate_deps, unique_deps, deps>>

git_vars == <<revwalk, max_history_length, git_i, git_next, file_commits, git_pc>>

ops_vars == <<build_deps, analyze_deps, test_targets, dep_idx, test_idx, success,
              removable_deps, commands, ops_pc>>

an_vars == <<an_commits_by_target, an_score_by_target, an_todo, an_stack, an_pc, an_result>>

main_vars == <<trigger_score, main_pc>>

vars == <<alg_vars, git_vars, ops_vars, an_vars, main_vars>>

-----------------------------------------------------------------------------
(* Bounds of the model *)

\* longest dep_targets list of a rule
MaxDeps == 2

\* number of dependency edges of the graph
MaxEdges == 4

\* number of (file, commit) changes in the history
MaxTouches == 2

-----------------------------------------------------------------------------
(* The inputs *)

LabelA == "//r:a"
LabelB == "//p/s:b"
LabelC == "//pq:c"
LabelD == "//p:d"

LabelOrder == <<LabelA, LabelB, LabelC, LabelD>>

Labels == {LabelOrder[i] : i \in 1..Len(LabelOrder)}

Commits == {"c1", "c2"}

\* the characters of the strings the code inspects
Chars(s) ==
    CASE s = "//r:a"   -> <<"/", "/", "r", ":", "a">>
      [] s = "//p/s:b" -> <<"/", "/", "p", "/", "s", ":", "b">>
      [] s = "//pq:c"  -> <<"/", "/", "p", "q", ":", "c">>
      [] s = "//p:d"   -> <<"/", "/", "p", ":", "d">>
      [] s = "//x:y"   -> <<"/", "/", "x", ":", "y">>
      [] s = "//p/..." -> <<"/", "/", "p", "/", ".", ".", ".">>
      [] s = "..."     -> <<".", ".", ".">>

\* source-file labels as the loader stores them
SrcB == <<"/", "/", "p", "/", "s", ":", "g">>
SrcC == <<"/", "/", "p", "q", ":", "h">>
SrcD == <<"/", "/", "p", ":", "k">>
SrcExternal == <<"@", "e", "/", "/", "x", ":", "y">>
SrcGenerated == <<"/", "/", "r", ":", "o">>

SourceFilesOf(l) ==
    CASE l = LabelA -> <<SrcGenerated, SrcExternal>>
      [] l = LabelB -> <<SrcB>>
      [] l = LabelC -> <<SrcExternal, SrcC>>
      [] l = LabelD -> <<SrcD, SrcGenerated>>

\* repository-relative paths with a history
PathB == <<"p", "/", "s", "/", "g">>
PathC == <<"p", "q", "/", "h">>
PathD == <<"p", "/", "k">>

Paths == {PathB, PathC, PathD}

\* one label, a label without a rule, a package wildcard, the bare wildcard
Requests == {LabelA, "//x:y", "//p/...", "..."}

LabelIndex(l) == CHOOSE i \in 1..Len(LabelOrder) : LabelOrder[i] = l

\* labels a rule may name as dependencies: the graph is acyclic
After(l) == {m \in Labels : LabelIndex(m) > LabelIndex(l)}

SeqsUpTo(S, n) == UNION {[1..k -> S] : k \in 0..n}

EmptyMap == [x \in {} |-> {}]

Put(f, k, v) == [x \in (DOMAIN f) \cup {k} |-> IF x = k THEN v ELSE f[x]]

\* a history: the set of (path, commit) changes; GitFile.commit_history is
\* never empty, a path without changes has no entry
Histories == {h \in SUBSET (Paths \X Commits) : Cardinality(h) <= MaxTouches}

RepoOf(h) ==
    [files |-> [p \in {c[1] : c \in h} |->
                  [commit_history |-> {c[2] : c \in {d \in h : d[1] = p}}]]]

GraphOf(present, d) ==
    [rules_by_label |-> [l \in present |->
        [dep_targets |-> d[l], source_files |-> SourceFilesOf(l)]]]

-----------------------------------------------------------------------------
(* String helpers *)

starts_with(s, prefix) ==
    /\ Len(prefix) <= Len(s)
    /\ SubSeq(s, 1, Len(prefix)) = prefix

ends_with(s, suffix) ==
    /\ Len(suffix) <= Len(s)
    /\ SubSeq(s, Len(s) - Len(suffix) + 1, Len(s)) = suffix

RECURSIVE SplitAcc(_, _, _, _)
SplitAcc(s, sep, i, parts) ==
    IF i > Len(s) THEN parts
    ELSE IF s[i] = sep
         THEN SplitAcc(s, sep, i + 1, Append(parts, <<>>))
         ELSE SplitAcc(s, sep, i + 1,
                       [parts EXCEPT ![Len(parts)] = Append(@, s[i])])

split(s, sep) == SplitAcc(s, sep, 1, << <<>> >>)

\* &format!("{}/{}", parts[0], parts[1])[2..]
relative_path(source_file) ==
    LET parts == split(source_file, ":")
        joined == parts[1] \o <<"/">> \o parts[2]
    IN SubSeq(joined, 3, Len(joined))

\* the commits one source file contributes
CommitsOfSourceFile(source_file) ==
    IF starts_with(source_file, <<"@">>) THEN {}
    ELSE IF relative_path(source_file) \in DOMAIN repo.files
         THEN repo.files[relative_path(source_file)].commit_history
         ELSE {}

\* commits_touching_files of a rule
CommitsTouchingFiles(rule) ==
    UNION {CommitsOfSourceFile(rule.source_files[i]) : i \in 1..Len(rule.source_files)}

-----------------------------------------------------------------------------
(* trigger_scores.rs *)

Rules == deps_graph.rules_by_label

\* recursively_calculate_total_dependents: the walk over immediate_dependents
\* with the visited guard; returns the visited set
RECURSIVE inner_recursively_calculate_total_dependents(_, _, _, _)
inner_recursively_calculate_total_dependents(sbt, name, i, visited) ==
    LET dependents == sbt[name].immediate_dependents IN
    IF i > Len(dependents) THEN visited
    ELSE LET dependent == dependents[i] IN
         IF dependent \in visited
         THEN inner_recursively_calculate_total_dependents(sbt, name, i + 1, visited)
         ELSE inner_recursively_calculate_total_dependents(sbt, name, i + 1,
                 inner_recursively_calculate_total_dependents(
                     sbt, dependent, 1, visited \cup {dependent}))

\* mutant: the walk's own count, which starts at 1 for the target itself
recursively_calculate_total_dependents_CountsSelf(sbt, name) ==
    1 + Cardinality(inner_recursively_calculate_total_dependents(sbt, name, 1, {}))

recursively_calculate_total_dependents(sbt, name) ==
    Cardinality(inner_recursively_calculate_total_dependents(sbt, name, 1, {}))

\* mutant: the target itself is not added to its dependents
ScoreOf_WithoutSelf(rebuilds, total_dependents) == rebuilds * total_dependents

\* let score = target.rebuilds * (total_dependents + 1)
ScoreOf(rebuilds, total_dependents) == rebuilds * (total_dependents + 1)

\* the ResolvedTarget the second pass builds for one entry of score_by_target
Resolve(sbt, cst, name) ==
    LET total_dependents == recursively_calculate_total_dependents(sbt, name) IN
    [name |-> name,
     rebuilds |-> sbt[name].rebuilds,
     immediate_dependents |-> Len(sbt[name].immediate_dependents),
     total_dependents |-> total_dependents,
     score |-> ScoreOf(sbt[name].rebuilds, total_dependents),
     commits |-> cst[name]]

Top == stack[Len(stack)]

TopRule == Rules[Top.target_name]

NewFrame(name) == [target_name |-> name, i |-> 1, all_commits |-> {}]

\* target.ends_with("...")
IsWildcard(tgt) == ends_with(Chars(tgt), <<".", ".", ".">>)

\* target[..target.len() - 4]
WildcardPrefix(tgt) == SubSeq(Chars(tgt), 1, Len(Chars(tgt)) - 4)

\* the labels of the graph the wildcard loop passes to the inner function
WildcardMatches(tgt, graph) ==
    {t \in DOMAIN graph.rules_by_label : starts_with(Chars(t), WildcardPrefix(tgt))}

\* calculate_trigger_scores up to the first call of the inner function
Start ==
    /\ UNCHANGED <<git_vars, ops_vars, an_vars, main_vars>>
    /\ pc = "start"
    /\ IF IsWildcard(target)
       THEN IF Len(Chars(target)) < 4
            THEN \* target.len() - 4 underflows
                 /\ pc' = "panic"
                 /\ UNCHANGED <<todo, stack>>
            ELSE /\ todo' = WildcardMatches(target, deps_graph)
                 /\ pc' = "seeds"
                 /\ UNCHANGED stack
       ELSE IF target \in DOMAIN Rules
            THEN /\ stack' = <<NewFrame(target)>>
                 /\ pc' = "inner"
                 /\ UNCHANGED todo
            ELSE /\ pc' = "err"
                 /\ UNCHANGED <<todo, stack>>
    /\ UNCHANGED <<target, deps_graph, repo, commits_by_target,
                   commits_specific_to_target, score_by_target, result,
                   duplicate_deps, unique_deps, deps>>

\* one iteration of the wildcard loop: the next label in HashMap order
Seed(t) ==
    /\ UNCHANGED <<git_vars, ops_vars, an_vars, main_vars>>
    /\ pc = "seeds"
    /\ t \in todo
    /\ todo' = todo \ {t}
    /\ IF t \in DOMAIN commits_by_target
       THEN UNCHANGED <<stack, pc>>
       ELSE /\ stack' = <<NewFrame(t)>>
            /\ pc' = "inner"
    /\ UNCHANGED <<target, deps_graph, repo, commits_by_target,
                   commits_specific_to_target, score_by_target, result,
                   duplicate_deps, unique_deps, deps>>

\* line 142-143: the caller registers itself as a dependent of dep_target
PushDependent(sbt, dep_target, parent) ==
    [sbt EXCEPT ![dep_target].immediate_dependents = Append(@, parent)]

\* mutant: the cached commit set is not added to the caller's commits
DepCached_DropsCommits ==
    /\ UNCHANGED <<git_vars, ops_vars, an_vars, main_vars>>
    /\ pc = "inner"
    /\ Top.i <= Len(TopRule.dep_targets)
    /\ LET dep_target == TopRule.dep_targets[Top.i] IN
       /\ dep_target \in DOMAIN commits_by_target
       /\ stack' = [stack EXCEPT ![Len(stack)] = [@ EXCEPT !.i = @ + 1]]
       /\ score_by_target' = PushDependent(score_by_target, dep_target, Top.target_name)
    /\ UNCHANGED <<target, deps_graph, repo, commits_by_target,
                   commits_specific_to_target, todo, pc, result,
                   duplicate_deps, unique_deps, deps>>

\* mutant: no dependent is recorded when the dependency is cached
DepCached_RecordsNoEdge ==
    /\ UNCHANGED <<git_vars, ops_vars, an_vars, main_vars>>
    /\ pc = "inner"
    /\ Top.i <= Len(TopRule.dep_targets)
    /\ LET dep_target == TopRule.dep_targets[Top.i] IN
       /\ dep_target \in DOMAIN commits_by_target
       /\ stack' = [stack EXCEPT ![Len(stack)] =
                       [@ EXCEPT !.all_commits = @ \cup commits_by_target[dep_target],
                                 !.i = @ + 1]]
    /\ UNCHANGED <<target, deps_graph, repo, commits_by_target,
                   commits_specific_to_target, score_by_target, todo, pc, result,
                   duplicate_deps, unique_deps, deps>>

\* the dependency loop meets a dependency whose commit set is cached
DepCached ==
    /\ UNCHANGED <<git_vars, ops_vars, an_vars, main_vars>>
    /\ pc = "inner"
    /\ Top.i <= Len(TopRule.dep_targets)
    /\ LET dep_target == TopRule.dep_targets[Top.i] IN
       /\ dep_target \in DOMAIN commits_by_target
       /\ stack' = [stack EXCEPT ![Len(stack)] =
                       [@ EXCEPT !.all_commits = @ \cup commits_by_target[dep_target],
                                 !.i = @ + 1]]
       /\ score_by_target' = PushDependent(score_by_target, dep_target, Top.target_name)
    /\ UNCHANGED <<target, deps_graph, repo, commits_by_target,
                   commits_specific_to_target, todo, pc, result,
                   duplicate_deps, unique_deps, deps>>

\* mutant: the descent does not consult the cache
DepEnter_IgnoresCache ==
    /\ UNCHANGED <<git_vars, ops_vars, an_vars, main_vars>>
    /\ pc = "inner"
    /\ Top.i <= Len(TopRule.dep_targets)
    /\ LET dep_target == TopRule.dep_targets[Top.i] IN
       /\ dep_target \in DOMAIN Rules
       /\ stack' = Append(stack, NewFrame(dep_target))
    /\ UNCHANGED <<target, deps_graph, repo, commits_by_target,
                   commits_specific_to_target, score_by_target, todo, pc, result,
                   duplicate_deps, unique_deps, deps>>

\* the dependency loop descends into a dependency that is not cached
DepEnter ==
    /\ UNCHANGED <<git_vars, ops_vars, an_vars, main_vars>>
    /\ pc = "inner"
    /\ Top.i <= Len(TopRule.dep_targets)
    /\ LET dep_target == TopRule.dep_targets[Top.i] IN
       /\ dep_target \notin DOMAIN commits_by_target
       /\ dep_target \in DOMAIN Rules
       /\ stack' = Append(stack, NewFrame(dep_target))
    /\ UNCHANGED <<target, deps_graph, repo, commits_by_target,
                   commits_specific_to_target, score_by_target, todo, pc, result,
                   duplicate_deps, unique_deps, deps>>

\* mutant: a dependency missing from the graph is skipped
DepNotFound_Skips ==
    /\ UNCHANGED <<git_vars, ops_vars, an_vars, main_vars>>
    /\ pc = "inner"
    /\ Top.i <= Len(TopRule.dep_targets)
    /\ LET dep_target == TopRule.dep_targets[Top.i] IN
       /\ dep_target \notin DOMAIN commits_by_target
       /\ dep_target \notin DOMAIN Rules
    /\ stack' = [stack EXCEPT ![Len(stack)] = [@ EXCEPT !.i = @ + 1]]
    /\ UNCHANGED <<target, deps_graph, repo, commits_by_target,
                   commits_specific_to_target, score_by_target, todo, pc, result,
                   duplicate_deps, unique_deps, deps>>

\* the dependency is not in the graph: the error propagates through every `?`
DepNotFound ==
    /\ UNCHANGED <<git_vars, ops_vars, an_vars, main_vars>>
    /\ pc = "inner"
    /\ Top.i <= Len(TopRule.dep_targets)
    /\ LET dep_target == TopRule.dep_targets[Top.i] IN
       /\ dep_target \notin DOMAIN commits_by_target
       /\ dep_target \notin DOMAIN Rules
    /\ stack' = <<>>
    /\ pc' = "err"
    /\ UNCHANGED <<target, deps_graph, repo, commits_by_target,
                   commits_specific_to_target, score_by_target, todo, result,
                   duplicate_deps, unique_deps, deps>>

\* mutant: a label without commits of its own gets no entry in
\* commits_specific_to_target
Finish_SkipsEmptySpecific ==
    /\ UNCHANGED <<git_vars, ops_vars, an_vars, main_vars>>
    /\ pc = "inner"
    /\ Top.i > Len(TopRule.dep_targets)
    /\ LET name == Top.target_name
           commits_touching_files == CommitsTouchingFiles(TopRule)
           all_commits == Top.all_commits \cup commits_touching_files
           inserted == Put(score_by_target, name,
                           [name |-> name,
                            rebuilds |-> Cardinality(all_commits),
                            immediate_dependents |-> <<>>])
           n == Len(stack)
       IN
       /\ commits_by_target' = Put(commits_by_target, name, all_commits)
       /\ commits_specific_to_target' =
              IF commits_touching_files = {}
              THEN commits_specific_to_target
              ELSE Put(commits_specific_to_target, name, commits_touching_files)
       /\ IF n = 1
          THEN /\ stack' = <<>>
               /\ score_by_target' = inserted
               /\ pc' = "seeds"
          ELSE /\ stack' = [SubSeq(stack, 1, n - 1) EXCEPT ![n - 1] =
                               [@ EXCEPT !.all_commits = @ \cup all_commits,
                                         !.i = @ + 1]]
               /\ score_by_target' =
                      PushDependent(inserted, name, stack[n - 1].target_name)
               /\ pc' = "inner"
    /\ UNCHANGED <<target, deps_graph, repo, todo, result,
                   duplicate_deps, unique_deps, deps>>

\* lines 145-164, and lines 134-143 of the caller the value is returned to
Finish ==
    /\ UNCHANGED <<git_vars, ops_vars, an_vars, main_vars>>
    /\ pc = "inner"
    /\ Top.i > Len(TopRule.dep_targets)
    /\ LET name == Top.target_name
           commits_touching_files == CommitsTouchingFiles(TopRule)
           all_commits == Top.all_commits \cup commits_touching_files
           inserted == Put(score_by_target, name,
                           [name |-> name,
                            rebuilds |-> Cardinality(all_commits),
                            immediate_dependents |-> <<>>])
           n == Len(stack)
       IN
       /\ commits_by_target' = Put(commits_by_target, name, all_commits)
       /\ commits_specific_to_target' =
              Put(commits_specific_to_target, name, commits_touching_files)
       /\ IF n = 1
          THEN /\ stack' = <<>>
               /\ score_by_target' = inserted
               /\ pc' = "seeds"
          ELSE /\ stack' = [SubSeq(stack, 1, n - 1) EXCEPT ![n - 1] =
                               [@ EXCEPT !.all_commits = @ \cup all_commits,
                                         !.i = @ + 1]]
               /\ score_by_target' =
                      PushDependent(inserted, name, stack[n - 1].target_name)
               /\ pc' = "inner"
    /\ UNCHANGED <<target, deps_graph, repo, todo, result,
                   duplicate_deps, unique_deps, deps>>

\* lines 85-109: the second pass over score_by_target
SecondPass ==
    /\ UNCHANGED <<git_vars, ops_vars, an_vars, main_vars>>
    /\ pc = "seeds"
    /\ todo = {}
    /\ IF DOMAIN score_by_target \subseteq DOMAIN commits_specific_to_target
       THEN /\ result' = [name \in DOMAIN score_by_target |->
                            Resolve(score_by_target, commits_specific_to_target, name)]
            /\ pc' = "ok"
       ELSE /\ pc' = "err"
            /\ UNCHANGED result
    /\ UNCHANGED <<target, deps_graph, repo, commits_by_target,
                   commits_specific_to_target, score_by_target, todo, stack,
                   duplicate_deps, unique_deps, deps>>

-----------------------------------------------------------------------------
(* most_unique_triggers.rs *)

\* mutant: a label seen before is recorded and its subtree explored again
RECURSIVE duplicate_visit_deps_Reexplores(_, _, _, _)
duplicate_visit_deps_Reexplores(graph, current, i, st) ==
    IF st.err THEN st
    ELSE IF current \notin DOMAIN graph.rules_by_label
    THEN [st EXCEPT !.err = TRUE]
    ELSE LET dep_targets == graph.rules_by_label[current].dep_targets IN
         IF i > Len(dep_targets) THEN st
         ELSE LET dep == dep_targets[i] IN
              duplicate_visit_deps_Reexplores(graph, current, i + 1,
                  duplicate_visit_deps_Reexplores(graph, dep, 1,
                      [seen |-> st.seen \cup {dep},
                       duplicates |-> st.duplicates \cup ({dep} \cap st.seen),
                       err |-> st.err]))

\* mutant: the loop over the dependencies ends at the first seen dependency
RECURSIVE duplicate_visit_deps_StopsAtSeen(_, _, _, _)
duplicate_visit_deps_StopsAtSeen(graph, current, i, st) ==
    IF st.err THEN st
    ELSE IF current \notin DOMAIN graph.rules_by_label
    THEN [st EXCEPT !.err = TRUE]
    ELSE LET dep_targets == graph.rules_by_label[current].dep_targets IN
         IF i > Len(dep_targets) THEN st
         ELSE LET dep == dep_targets[i] IN
              IF dep \in st.seen
              THEN [st EXCEPT !.duplicates = @ \cup {dep}]
              ELSE duplicate_visit_deps_StopsAtSeen(graph, current, i + 1,
                       duplicate_visit_deps_StopsAtSeen(graph, dep, 1,
                           [st EXCEPT !.seen = @ \cup {dep}]))

\* visit_deps of find_duplicate_deps: st = [seen, duplicates, err]
RECURSIVE duplicate_visit_deps(_, _, _, _)
duplicate_visit_deps(graph, current, i, st) ==
    IF st.err THEN st
    ELSE IF current \notin DOMAIN graph.rules_by_label
    THEN [st EXCEPT !.err = TRUE]
    ELSE LET dep_targets == graph.rules_by_label[current].dep_targets IN
         IF i > Len(dep_targets) THEN st
         ELSE LET dep == dep_targets[i] IN
              IF dep \in st.seen
              THEN duplicate_visit_deps(graph, current, i + 1,
                       [st EXCEPT !.duplicates = @ \cup {dep}])
              ELSE duplicate_visit_deps(graph, current, i + 1,
                       duplicate_visit_deps(graph, dep, 1,
                           [st EXCEPT !.seen = @ \cup {dep}]))

find_duplicate_deps(tgt, graph) ==
    duplicate_visit_deps(graph, tgt, 1, [seen |-> {}, duplicates |-> {}, err |-> FALSE])

\* visit_deps of get_unique_deps: st = [unique_deps, err]
RECURSIVE unique_visit_deps(_, _, _, _, _)
unique_visit_deps(graph, duplicates, current, i, st) ==
    IF st.err THEN st
    ELSE IF current \in duplicates THEN st
    ELSE IF current \notin DOMAIN graph.rules_by_label
    THEN [unique_deps |-> st.unique_deps \cup {current}, err |-> TRUE]
    ELSE LET dep_targets == graph.rules_by_label[current].dep_targets IN
         IF i > Len(dep_targets)
         THEN [st EXCEPT !.unique_deps = @ \cup {current}]
         ELSE unique_visit_deps(graph, duplicates, current, i + 1,
                  unique_visit_deps(graph, duplicates, dep_targets[i], 1,
                      [st EXCEPT !.unique_deps = @ \cup {current}]))

get_unique_deps(dep, graph, duplicates) ==
    unique_visit_deps(graph, duplicates, dep, 1, [unique_deps |-> {}, err |-> FALSE])

RECURSIVE SumOfSizes(_, _)
SumOfSizes(scores_by_target, labels) ==
    IF labels = {} THEN 0
    ELSE LET u == CHOOSE x \in labels : TRUE IN
         Cardinality(scores_by_target[u].commits)
             + SumOfSizes(scores_by_target, labels \ {u})

\* mutant: the commit sets of the unique deps are counted one by one
CandidateScore_SumsSizes(scores_by_target, unique) ==
    SumOfSizes(scores_by_target, unique \cap DOMAIN scores_by_target)

\* the score of one candidate: the commits of its unique deps found in the table
CandidateScore(scores_by_target, unique) ==
    Cardinality(UNION {scores_by_target[u].commits :
                          u \in unique \cap DOMAIN scores_by_target})

\* mutant: the duplicate dependencies are not skipped
RECURSIVE Candidates_KeepsDuplicates(_, _, _, _, _)
Candidates_KeepsDuplicates(graph, scores_by_target, duplicates, dep_targets, i) ==
    IF i > Len(dep_targets) THEN <<>>
    ELSE <<[name |-> dep_targets[i],
            score |-> CandidateScore(scores_by_target,
                          get_unique_deps(dep_targets[i], graph, duplicates).unique_deps)]>>
         \o Candidates_KeepsDuplicates(graph, scores_by_target, duplicates,
                                       dep_targets, i + 1)

\* the loop over target_rule.dep_targets that pushes the candidates
RECURSIVE Candidates(_, _, _, _, _)
Candidates(graph, scores_by_target, duplicates, dep_targets, i) ==
    IF i > Len(dep_targets) THEN <<>>
    ELSE LET dep == dep_targets[i]
             rest == Candidates(graph, scores_by_target, duplicates, dep_targets, i + 1)
         IN IF dep \in duplicates THEN rest
            ELSE <<[name |-> dep,
                    score |-> CandidateScore(scores_by_target,
                                  get_unique_deps(dep, graph, duplicates).unique_deps)]>>
                 \o rest

\* mutant: a.score.cmp(&b.score), ascending
SortsBefore_Ascending(a, b) == a.score < b.score

\* the comparator of deps.sort_by: a sorts before b
SortsBefore(a, b) == a.score > b.score

\* Vec::sort_by is stable: an element goes after every element that does not
\* sort after it
RECURSIVE InsertSorted(_, _)
InsertSorted(sorted, x) ==
    IF sorted = <<>> THEN <<x>>
    ELSE IF SortsBefore(x, Head(sorted))
         THEN <<x>> \o sorted
         ELSE <<Head(sorted)>> \o InsertSorted(Tail(sorted), x)

RECURSIVE sort_by(_, _)
sort_by(v, n) ==
    IF n = 0 THEN <<>> ELSE InsertSorted(sort_by(v, n - 1), v[n])

\* most_unique_triggers after its call of calculate_trigger_scores returned Ok
MostUniqueTriggers ==
    /\ UNCHANGED <<git_vars, ops_vars, an_vars, main_vars>>
    /\ pc = "ok"
    /\ IF target \notin DOMAIN Rules
       THEN /\ pc' = "mut_err"
            /\ UNCHANGED <<duplicate_deps, unique_deps, deps>>
       ELSE LET found == find_duplicate_deps(target, deps_graph)
                dep_targets == Rules[target].dep_targets
                uniques == [d \in {dep_targets[i] : i \in 1..Len(dep_targets)}
                                  \ found.duplicates |->
                              get_unique_deps(d, deps_graph, found.duplicates)]
            IN IF found.err \/ \E d \in DOMAIN uniques : uniques[d].err
               THEN /\ pc' = "mut_err"
                    /\ UNCHANGED <<duplicate_deps, unique_deps, deps>>
               ELSE LET pushed == Candidates(deps_graph, result, found.duplicates,
                                             dep_targets, 1)
                    IN /\ duplicate_deps' = found.duplicates
                       /\ unique_deps' = [d \in DOMAIN uniques |-> uniques[d].unique_deps]
                       /\ deps' = sort_by(pushed, Len(pushed))
                       /\ pc' = "ranked"
    /\ UNCHANGED <<target, deps_graph, repo, commits_by_target,
                   commits_specific_to_target, score_by_target, todo, stack, result>>

-----------------------------------------------------------------------------
(* The specification *)

\* get_file_commit_history is not running
GitIdle ==
    /\ revwalk = <<>>
    /\ max_history_length = -1
    /\ git_i = 0
    /\ git_next = 1
    /\ file_commits = EmptyMap
    /\ git_pc = "idle"

\* the Analyze command is not running
OpsIdle ==
    /\ build_deps = {}
    /\ analyze_deps = <<>>
    /\ test_targets = <<>>
    /\ dep_idx = 0
    /\ test_idx = 0
    /\ success = TRUE
    /\ removable_deps = <<>>
    /\ commands = <<>>
    /\ ops_pc = "idle"

\* analyzer::calculate_trigger_scores_map is not running
AnalyzerIdle ==
    /\ an_commits_by_target = EmptyMap
    /\ an_score_by_target = EmptyMap
    /\ an_todo = {}
    /\ an_stack = <<>>
    /\ an_pc = "idle"
    /\ an_result = EmptyMap

\* calculate_trigger_scores of main.rs is not running
MainIdle ==
    /\ trigger_score = 0
    /\ main_pc = "idle"

\* the graphs: every rule lists at most MaxDeps later labels (the same label
\* may be listed twice), MaxEdges dependencies in all, and the last label may
\* be missing from rules_by_label
Init ==
    /\ target \in Requests
    /\ \E present \in {Labels, Labels \ {LabelD}} :
       \E da \in SeqsUpTo(After(LabelA), MaxDeps) :
       \E db \in SeqsUpTo(After(LabelB), MaxDeps) :
       \E dc \in SeqsUpTo(After(LabelC), MaxDeps) :
          /\ Len(da) + Len(db) + Len(dc) <= MaxEdges
          /\ deps_graph = GraphOf(present,
                 (LabelA :> da) @@ (LabelB :> db) @@ (LabelC :> dc) @@ (LabelD :> <<>>))
    /\ \E h \in Histories : repo = RepoOf(h)
    /\ commits_by_target = EmptyMap
    /\ commits_specific_to_target = EmptyMap
    /\ score_by_target = EmptyMap
    /\ todo = {}
    /\ stack = <<>>
    /\ pc = "start"
    /\ result = EmptyMap
    /\ duplicate_deps = {}
    /\ unique_deps = EmptyMap
    /\ deps = <<>>
    /\ GitIdle
    /\ OpsIdle
    /\ AnalyzerIdle
    /\ MainIdle

Next ==
    \/ Start
    \/ \E t \in Labels : Seed(t)
    \/ DepCached
    \/ DepEnter
    \/ DepNotFound
    \/ Finish
    \/ SecondPass
    \/ MostUniqueTriggers

Spec == Init /\ [][Next]_vars

-----------------------------------------------------------------------------
(* The dependency relation, stated without the traversals *)

DepTargets(graph, l) ==
    IF l \in DOMAIN graph.rules_by_label
    THEN graph.rules_by_label[l].dep_targets ELSE <<>>

DirectDeps(graph, l) ==
    {DepTargets(graph, l)[i] : i \in 1..Len(DepTargets(graph, l))}

RECURSIVE ClosedUnderDeps(_, _)
ClosedUnderDeps(graph, X) ==
    LET Y == X \cup UNION {DirectDeps(graph, l) : l \in X}
    IN IF Y = X THEN X ELSE ClosedUnderDeps(graph, Y)

\* the labels reachable from l through one or more dependency edges
Closure(graph, l) == ClosedUnderDeps(graph, DirectDeps(graph, l))

\* the visited targets that depend on l through one or more edges
Dependents(graph, visited, l) == {u \in visited : l \in Closure(graph, u)}

\* the number of dependency edges into l whose tail is in X
InEdges(graph, X, l) ==
    Cardinality({e \in X \X (1..MaxDeps + 1) :
                    /\ e[2] <= Len(DepTargets(graph, e[1]))
                    /\ DepTargets(graph, e[1])[e[2]] = l})

\* the graph without the edges from s to d
WithoutEdge(graph, s, d) ==
    [rules_by_label |-> [l \in DOMAIN graph.rules_by_label |->
        IF l = s
        THEN [graph.rules_by_label[l] EXCEPT
                 !.dep_targets = SelectSeq(@, LAMBDA x : x # d)]
        ELSE graph.rules_by_label[l]]]

Returned == pc \in {"ok", "ranked", "mut_err"}

-----------------------------------------------------------------------------
(* Trigger scores *)

\* C1: in every returned table, rebuilds(T) is the number of distinct commits
\* in the union of the specific commits of T and of every target reachable
\* from T, however many paths reach a dependency.
C1_RebuildsIsUnionOverClosure ==
    Returned =>
        \A t \in DOMAIN result :
            /\ Closure(deps_graph, t) \subseteq DOMAIN result
            /\ result[t].rebuilds =
                   Cardinality(UNION {result[l].commits :
                                         l \in {t} \cup Closure(deps_graph, t)})

\* a diamond below t whose shared dependency has commits of its own, next to
\* a commit two targets share
C1_Witness ==
    /\ pc = "ok"
    /\ \E t \in DOMAIN result : \E d \in Closure(deps_graph, t) :
          /\ Cardinality({u \in {t} \cup Closure(deps_graph, t) :
                             d \in DirectDeps(deps_graph, u)}) >= 2
          /\ result[d].commits # {}
          /\ result[t].rebuilds = 2

\* C2 as stated: total_dependents(T) counts T itself, so it is at least 1 and
\* is 1 plus the number of distinct visited targets that depend on T; in the
\* chain A->B->C it is 3, 2, 1 and the scores are 4, 3 and 2 times the rebuilds.
IsChain ==
    /\ DOMAIN result = {LabelA, LabelB, LabelC}
    /\ DepTargets(deps_graph, LabelA) = <<LabelB>>
    /\ DepTargets(deps_graph, LabelB) = <<LabelC>>
    /\ DepTargets(deps_graph, LabelC) = <<>>

-----------------------------------------------------------------------------
(* Most unique triggers *)

Seed_S == target

ReachedThrough(graph, b) == {b} \cup Closure(graph, b)

\* C5: a label reachable from S through two distinct immediate dependencies
\* of S is in find_duplicate_deps(S) and in the unique deps of neither branch.
C5_DiamondInvariant ==
    pc = "ranked" =>
        \A l \in Labels :
            (\E b1, b2 \in DirectDeps(deps_graph, Seed_S) :
                /\ b1 # b2
                /\ l \in ReachedThrough(deps_graph, b1)
                /\ l \in ReachedThrough(deps_graph, b2))
            => /\ l \in duplicate_deps
               /\ \A b \in DirectDeps(deps_graph, Seed_S) :
                     l \notin get_unique_deps(b, deps_graph, duplicate_deps).unique_deps

\* C6: for an immediate dependency d of S that is no duplicate,
\* get_unique_deps(d) is exactly the set of labels that leave the dependency
\* closure of S when the edge S->d is deleted.
C6_UniqueDepsAreRemovedLabels ==
    pc = "ranked" =>
        \A d \in DOMAIN unique_deps :
            unique_deps[d] =
                Closure(deps_graph, Seed_S)
                    \ Closure(WithoutEdge(deps_graph, Seed_S, d), Seed_S)

\* C7: the candidates are exactly the immediate dependencies of S that are
\* not in find_duplicate_deps(S), each once.
C7_CandidatesAreNonDuplicateDeps ==
    pc = "ranked" =>
        /\ \A d \in DirectDeps(deps_graph, Seed_S) \ duplicate_deps :
              Cardinality({i \in 1..Len(deps) : deps[i].name = d}) = 1
        /\ \A i \in 1..Len(deps) :
              /\ deps[i].name \in DirectDeps(deps_graph, Seed_S)
              /\ deps[i].name \notin duplicate_deps

\* one immediate dependency is a duplicate, another is a candidate
C7_Witness ==
    /\ pc = "ranked"
    /\ DirectDeps(deps_graph, Seed_S) \cap duplicate_deps # {}
    /\ Len(deps) >= 1

\* the commits that trigger s: those touching a source file of s or of a
\* target in its dependency closure
Triggers(graph, s) ==
    UNION {CommitsTouchingFiles(graph.rules_by_label[l]) :
              l \in ({s} \cup Closure(graph, s)) \cap DOMAIN graph.rules_by_label}

\* C8: the score of candidate d is the number of commits that trigger S in
\* the full graph and no longer trigger it once the edge S->d is removed.
C8_ScoreIsTriggersSaved ==
    pc = "ranked" =>
        \A i \in 1..Len(deps) :
            deps[i].score =
                Cardinality(Triggers(deps_graph, Seed_S)
                    \ Triggers(WithoutEdge(deps_graph, Seed_S, deps[i].name), Seed_S))

DeclaredAt(d) ==
    CHOOSE i \in 1..Len(DepTargets(deps_graph, Seed_S)) :
        DepTargets(deps_graph, Seed_S)[i] = d

\* C9: the candidates are in non-increasing order of score and candidates of
\* equal score are in the order of dep_targets.
C9_SortedDescendingStable ==
    pc = "ranked" =>
        \A i, j \in 1..Len(deps) :
            i < j =>
                /\ deps[i].score >= deps[j].score
                /\ deps[i].score = deps[j].score =>
                       DeclaredAt(deps[i].name) < DeclaredAt(deps[j].name)

\* the sort moved a candidate declared later in front of one declared earlier
C9_Witness ==
    /\ pc = "ranked"
    /\ \E i, j \in 1..Len(deps) :
          /\ i < j
          /\ deps[i].score > deps[j].score
          /\ DeclaredAt(deps[i].name) > DeclaredAt(deps[j].name)

-----------------------------------------------------------------------------
(* Missing labels *)

RequestedSeeds ==
    IF IsWildcard(target)
    THEN IF Len(Chars(target)) < 4 THEN {} ELSE WildcardMatches(target, deps_graph)
    ELSE {target}

\* a seed, or a label some seed reaches through dependency edges, has no rule
MissingReferenced ==
    \E s \in RequestedSeeds :
        ({s} \cup Closure(deps_graph, s)) \ DOMAIN Rules # {}

\* C10: when the seed or a label reached as a dependency is absent from the
\* graph, the call ends in the not-found error and no table is returned, also
\* not for the labels computed before the missing one.
C10_MissingLabelIsFatal ==
    MissingReferenced =>
        /\ pc \in {"start", "seeds", "inner", "err"}
        /\ result = EmptyMap
        /\ deps = <<>>

\* the error came after some labels had been computed
C10_Witness ==
    /\ MissingReferenced
    /\ pc = "err"
    /\ DOMAIN commits_by_target # {}
    /\ result = EmptyMap

-----------------------------------------------------------------------------
(* Wildcard requests *)

\* the request without its three-character marker
PrefixWithoutMarker(tgt) == SubSeq(Chars(tgt), 1, Len(Chars(tgt)) - 3)

LabelsUnderPrefix ==
    {t \in DOMAIN Rules : starts_with(Chars(t), PrefixWithoutMarker(target))}

\* C11: a request ending in "..." (the bare "..." included) seeds the
\* computation with exactly the graph labels that start with the request
\* minus those three characters; other labels are in the table only when a
\* seed reaches them as dependencies.
C11_WildcardSeedsPrefixLabels ==
    IsWildcard(target) =>
        /\ pc # "panic"
        /\ (pc = "seeds" /\ commits_by_target = EmptyMap) => todo = LabelsUnderPrefix
        /\ Returned =>
              DOMAIN result =
                  LabelsUnderPrefix
                      \cup UNION {Closure(deps_graph, s) : s \in LabelsUnderPrefix}

\* the labels a run visits: the seeds and what they reach
VisitedLabels ==
    RequestedSeeds \cup UNION {Closure(deps_graph, s) : s \in RequestedSeeds}

\* the ResolvedTarget of a label as a function of the graph, the history and
\* the set of visited labels alone
OrderFreeTarget(t) ==
    LET rebuilds == Cardinality(Triggers(deps_graph, t))
        total_dependents == Cardinality(Dependents(deps_graph, VisitedLabels, t))
    IN [name |-> t,
        rebuilds |-> rebuilds,
        immediate_dependents |-> InEdges(deps_graph, VisitedLabels, t),
        total_dependents |-> total_dependents,
        score |-> rebuilds * (total_dependents + 1),
        commits |-> CommitsTouchingFiles(Rules[t])]

\* C12: in a wildcard run the ResolvedTarget of every label is the same for
\* every order in which the matching labels are processed: the table is a
\* function of the inputs, whichever of the orders the run took.
C12_WildcardOrderIndependent ==
    (IsWildcard(target) /\ Returned) =>
        result = [t \in VisitedLabels |-> OrderFreeTarget(t)]

\* a matching label that another matching label depends on: it is a seed of
\* its own in one order and a cached or computed dependency in another
C12_Witness ==
    /\ IsWildcard(target)
    /\ pc = "ok"
    /\ \E t, u \in RequestedSeeds : t \in DirectDeps(deps_graph, u)

\* the visited targets whose dependency list names t
DeclaringTargets(t) == {u \in DOMAIN result : t \in DirectDeps(deps_graph, u)}

\* C13: immediate_dependents of every target in the result is the number of
\* visited targets that declare it as a direct dependency.
C13_ImmediateDependentsCountsTargets ==
    Returned =>
        \A t \in DOMAIN result :
            result[t].immediate_dependents = Cardinality(DeclaringTargets(t))

-----------------------------------------------------------------------------
(* git.rs: get_file_commit_history *)

\* longest history the revwalk yields
MaxWalk == 3

\* paths of the work tree, as their components
TreePaths == {<<"p", "g">>, <<"h">>}

\* TreeEntry::name(): the file name of the entry, without its directories
entry_name(path) == <<path[Len(path)]>>

\* the revwalk from HEAD to the initial commit: the commit at position k has
\* id k; paths are the new-file paths of its diff against its first parent, or
\* the blobs of its tree for the initial commit
Walks ==
    UNION {{[k \in 1..n |-> [id |-> k,
                             parent_count |-> IF k = n THEN 0 ELSE 1,
                             paths |-> ps[k]]] : ps \in [1..n -> SUBSET TreePaths]}
           : n \in 1..MaxWalk}

\* file_commits.entry(key).or_insert_with(..).commit_history.insert(commit_id)
\* for every key
RecordCommit(fc, keys, commit_id) ==
    [p \in (DOMAIN fc) \cup keys |->
        IF p \in keys
        THEN [commit_history |->
                 (IF p \in DOMAIN fc THEN fc[p].commit_history ELSE {}) \cup {commit_id}]
        ELSE fc[p]]

\* calculate_trigger_scores and most_unique_triggers are not running
AlgIdle ==
    /\ target = ""
    /\ deps_graph = [rules_by_label |-> EmptyMap]
    /\ repo = [files |-> EmptyMap]
    /\ commits_by_target = EmptyMap
    /\ commits_specific_to_target = EmptyMap
    /\ score_by_target = EmptyMap
    /\ todo = {}
    /\ stack = <<>>
    /\ pc = "idle"
    /\ result = EmptyMap
    /\ duplicate_deps = {}
    /\ unique_deps = EmptyMap
    /\ deps = <<>>

InitGit ==
    /\ AlgIdle
    /\ OpsIdle
    /\ AnalyzerIdle
    /\ MainIdle
    /\ revwalk \in Walks
    /\ max_history_length \in -1..MaxWalk
    /\ git_i = 0
    /\ git_next = 1
    /\ file_commits = EmptyMap
    /\ git_pc = "walk"

\* one iteration of the loop over the revwalk
WalkCommit ==
    /\ UNCHANGED <<alg_vars, ops_vars, an_vars, main_vars>>
    /\ git_pc = "walk"
    /\ git_next <= Len(revwalk)
    /\ LET commit == revwalk[git_next]
           keys == IF commit.parent_count > 0
                   THEN commit.paths
                   ELSE {entry_name(p) : p \in commit.paths}
       IN file_commits' = RecordCommit(file_commits, keys, commit.id)
    /\ git_next' = git_next + 1
    /\ IF max_history_length # -1
       THEN /\ git_i' = git_i + 1
            /\ git_pc' = IF git_i + 1 > max_history_length THEN "done" ELSE "walk"
       ELSE UNCHANGED <<git_i, git_pc>>
    /\ UNCHANGED <<revwalk, max_history_length>>

\* the revwalk is exhausted
WalkEnd ==
    /\ UNCHANGED <<alg_vars, ops_vars, an_vars, main_vars>>
    /\ git_pc = "walk"
    /\ git_next > Len(revwalk)
    /\ git_pc' = "done"
    /\ UNCHANGED <<revwalk, max_history_length, git_i, git_next, file_commits>>

NextGit ==
    \/ WalkCommit
    \/ WalkEnd

SpecGit == InitGit /\ [][NextGit]_vars

\* the commits whose identifier is in the file index
RecordedCommits == UNION {file_commits[p].commit_history : p \in DOMAIN file_commits}

\* C14: with max_history_length = N other than -1 the file index holds the
\* identifiers of at most N commits of the walk; with -1 every commit of the
\* walk is processed.
C14_AtMostNCommitsRecorded ==
    git_pc = "done" =>
        IF max_history_length # -1
        THEN Cardinality(RecordedCommits) <= max_history_length
        ELSE /\ git_next = Len(revwalk) + 1
             /\ \A k \in 1..Len(revwalk) :
                    revwalk[k].paths # {} => revwalk[k].id \in RecordedCommits

-----------------------------------------------------------------------------
(* Memoization *)

\* the labels whose computation is in progress
OnStack == {stack[k].target_name : k \in 1..Len(stack)}

\* the step enters the non-cached branch for a label
Enters == Len(stack') > Len(stack)

\* the step completes the computation of the label on top of the stack
Completes == stack # <<>> /\ Len(stack') < Len(stack) /\ pc' # "err"

\* the step is a visit of a dependency that returns at line 121
CachedVisit ==
    /\ stack # <<>>
    /\ Len(stack') = Len(stack)
    /\ stack'[Len(stack)].i = Top.i + 1

\* C15: the commit set of a label is computed at most once in a call: the
\* non-cached branch is entered only for a label that is neither cached nor
\* in progress, its completion caches the set, a cached set never changes,
\* and every later visit adds exactly the cached set to its caller.
C15_ComputedAtMostOnce ==
    [][/\ \A l \in DOMAIN commits_by_target :
             /\ l \in DOMAIN commits_by_target'
             /\ commits_by_target'[l] = commits_by_target[l]
       /\ Enters =>
             LET l == stack'[Len(stack')].target_name IN
             /\ Len(stack') = Len(stack) + 1
             /\ l \notin DOMAIN commits_by_target
             /\ l \notin OnStack
       /\ Completes =>
             /\ Top.target_name \notin DOMAIN commits_by_target
             /\ Top.target_name \in DOMAIN commits_by_target'
       /\ CachedVisit =>
             /\ TopRule.dep_targets[Top.i] \in DOMAIN commits_by_target
             /\ stack'[Len(stack)].all_commits =
                    Top.all_commits \cup commits_by_target[TopRule.dep_targets[Top.i]]
       /\ (pc = "seeds" /\ todo' # todo /\ stack' = <<>>) =>
             /\ (todo \ todo') \subseteq DOMAIN commits_by_target
             /\ commits_by_target' = commits_by_target
      ]_vars

\* a label reached by two parents, or by a parent and then as a seed, in a
\* completed run
C15_Witness ==
    /\ pc = "ok"
    /\ \E t \in DOMAIN result :
          /\ result[t].immediate_dependents >= 2
          /\ result[t].rebuilds >= 1

-----------------------------------------------------------------------------
(* Traversal order of the duplicate detector *)

\* the orders in which a dependency list can be declared
Reorderings(s) ==
    {[k \in 1..Len(s) |-> s[pi[k]]] : pi \in Permutations(1..Len(s))}

\* the graph with the given dependency lists
WithLists(graph, lists) ==
    [rules_by_label |->
        [l \in DOMAIN graph.rules_by_label |->
            [graph.rules_by_label[l] EXCEPT !.dep_targets = lists[l]]]]

\* C16: find_duplicate_deps(S) returns the same set for every order of the
\* dependency lists of S and of the targets reachable from it, and visits
\* every label reachable from S.
C16_DuplicatesOrderIndependent ==
    pc = "ranked" =>
        \A la \in Reorderings(DepTargets(deps_graph, LabelA)) :
        \A lb \in Reorderings(DepTargets(deps_graph, LabelB)) :
        \A lc \in Reorderings(DepTargets(deps_graph, LabelC)) :
            LET lists == (LabelA :> la) @@ (LabelB :> lb) @@ (LabelC :> lc)
                             @@ (LabelD :> DepTargets(deps_graph, LabelD))
                found == find_duplicate_deps(Seed_S, WithLists(deps_graph, lists))
            IN /\ ~found.err
               /\ found.duplicates = duplicate_deps
               /\ found.seen = Closure(deps_graph, Seed_S)

\* a run with a duplicate where some reachable list can be declared in
\* another order
C16_Witness ==
    /\ pc = "ranked"
    /\ duplicate_deps # {}
    /\ \E l \in {Seed_S} \cup Closure(deps_graph, Seed_S) :
          Cardinality(Reorderings(DepTargets(deps_graph, l))) >= 2

-----------------------------------------------------------------------------
(* Candidate scores *)

\* the commits touching the source files the label owns directly
specific_commits(l) == CommitsTouchingFiles(Rules[l])

\* the scenario A -> {B, C}, B -> {D}, C -> {D} with D touched by c1, B by c2
\* and C by nothing
DiamondScenario ==
    /\ target = LabelA
    /\ DOMAIN Rules = Labels
    /\ DepTargets(deps_graph, LabelA) = <<LabelB, LabelC>>
    /\ DepTargets(deps_graph, LabelB) = <<LabelD>>
    /\ DepTargets(deps_graph, LabelC) = <<LabelD>>
    /\ repo = RepoOf({<<PathD, "c1">>, <<PathB, "c2">>})

-----------------------------------------------------------------------------
(* The three tables of the traversal *)

\* the traversal phase is over and the second pass has not run
TraversalComplete == pc = "seeds" /\ todo = {} /\ stack = <<>>

\* C18: when the traversal completes without a not-found error the tables
\* commits_by_target, commits_specific_to_target and score_by_target have the
\* same keys, the seeds and every label they reach; the second pass never
\* fails on a key missing from commits_specific_to_target, and the result has
\* one entry per visited label.
C18_TablesShareKeys ==
    /\ DOMAIN commits_by_target = DOMAIN score_by_target
    /\ DOMAIN commits_specific_to_target = DOMAIN score_by_target
    /\ TraversalComplete => DOMAIN score_by_target = VisitedLabels
    /\ pc = "err" => MissingReferenced
    /\ Returned => DOMAIN result = VisitedLabels

\* a completed wildcard run over three labels or more, one of them without
\* commits of its own
C18_Witness ==
    /\ pc = "ok"
    /\ IsWildcard(target)
    /\ Cardinality(DOMAIN result) >= 3
    /\ \E t \in DOMAIN result : result[t].commits = {}

-----------------------------------------------------------------------------
(* main.rs: the Analyze command; operations/mod.rs holds the same functions. *)
(* buildozer and bazel are in the path, as the module expects: every        *)
(* command runs and yields an exit status.                                   *)

\* most dependencies of the analyzed target
MaxBuildDeps == 2

\* most --test arguments
MaxTests == 2

\* one external command with the success of its exit status
Ran(cmd, arg, ok) == [cmd |-> cmd, arg |-> arg, ok |-> ok]

\* the dependency test_passes_without_dep is called for
CurrentDep == analyze_deps[dep_idx]

\* dependencies and tests are named by their position in the BUILD file and
\* on the command line
InitOps ==
    /\ AlgIdle
    /\ GitIdle
    /\ AnalyzerIdle
    /\ MainIdle
    /\ \E n \in 0..MaxBuildDeps : build_deps = 1..n
    /\ \E n \in 0..MaxTests : test_targets = [k \in 1..n |-> k]
    /\ analyze_deps = <<>>
    /\ dep_idx = 0
    /\ test_idx = 0
    /\ success = TRUE
    /\ removable_deps = <<>>
    /\ commands = <<>>
    /\ ops_pc = "get_deps"

\* get_deps: buildozer 'print deps'; an empty list when buildozer fails
GetDeps(ok) ==
    /\ UNCHANGED <<alg_vars, git_vars, an_vars, main_vars>>
    /\ ops_pc = "get_deps"
    /\ commands' = Append(commands, Ran("print deps", 0, ok))
    /\ analyze_deps' = IF ok THEN [k \in 1..Cardinality(build_deps) |-> k] ELSE <<>>
    /\ dep_idx' = 1
    /\ ops_pc' = IF analyze_deps' = <<>> THEN "done" ELSE "remove"
    /\ UNCHANGED <<build_deps, test_targets, test_idx, success, removable_deps>>

\* test_passes_without_dep up to the loop: remove_dep(target, dep), whose
\* result is dropped, and let mut success = true
RemoveDep(ok) ==
    /\ UNCHANGED <<alg_vars, git_vars, an_vars, main_vars>>
    /\ ops_pc = "remove"
    /\ commands' = Append(commands, Ran("remove deps", CurrentDep, ok))
    /\ build_deps' = IF ok THEN build_deps \ {CurrentDep} ELSE build_deps
    /\ success' = TRUE
    /\ test_idx' = 1
    /\ ops_pc' = IF test_targets = <<>> THEN "add" ELSE "test"
    /\ UNCHANGED <<analyze_deps, test_targets, dep_idx, removable_deps>>

\* mutant: the first failing test ends the loop over test_targets
RunTest_StopsAtFailure(ok) ==
    /\ UNCHANGED <<alg_vars, git_vars, an_vars, main_vars>>
    /\ ops_pc = "test"
    /\ commands' = Append(commands, Ran("test", test_targets[test_idx], ok))
    /\ success' = IF ok THEN success ELSE FALSE
    /\ test_idx' = test_idx + 1
    /\ ops_pc' = IF test_idx = Len(test_targets) \/ ~ok THEN "add" ELSE "test"
    /\ UNCHANGED <<build_deps, analyze_deps, test_targets, dep_idx, removable_deps>>

\* one iteration of the loop over test_targets: bazel test
RunTest(ok) ==
    /\ UNCHANGED <<alg_vars, git_vars, an_vars, main_vars>>
    /\ ops_pc = "test"
    /\ commands' = Append(commands, Ran("test", test_targets[test_idx], ok))
    /\ success' = IF ok THEN success ELSE FALSE
    /\ test_idx' = test_idx + 1
    /\ ops_pc' = IF test_idx = Len(test_targets) THEN "add" ELSE "test"
    /\ UNCHANGED <<build_deps, analyze_deps, test_targets, dep_idx, removable_deps>>

\* add_dep(target, dep) and the return of success to the loop of the Analyze
\* command, which pushes the dependency when it is true
AddDep(ok) ==
    /\ UNCHANGED <<alg_vars, git_vars, an_vars, main_vars>>
    /\ ops_pc = "add"
    /\ commands' = Append(commands, Ran("add deps", CurrentDep, ok))
    /\ build_deps' = IF ok THEN build_deps \cup {CurrentDep} ELSE build_deps
    /\ removable_deps' = IF success THEN Append(removable_deps, CurrentDep)
                         ELSE removable_deps
    /\ dep_idx' = dep_idx + 1
    /\ ops_pc' = IF dep_idx = Len(analyze_deps) THEN "done" ELSE "remove"
    /\ UNCHANGED <<analyze_deps, test_targets, test_idx, success>>

NextOps ==
    \/ \E ok \in BOOLEAN : GetDeps(ok)
    \/ \E ok \in BOOLEAN : RemoveDep(ok)
    \/ \E ok \in BOOLEAN : RunTest(ok)
    \/ \E ok \in BOOLEAN : AddDep(ok)

SpecOps == InitOps /\ [][NextOps]_vars

\* the dependencies test_passes_without_dep has returned for
TriedDeps == IF ops_pc = "done" THEN Len(analyze_deps) ELSE dep_idx - 1

\* the position in commands before the commands of the k-th dependency
SegmentBase(k) == 1 + (k - 1) * (Len(test_targets) + 2)

\* the dependencies reported as removable
Reported == {removable_deps[i] : i \in 1..Len(removable_deps)}

\* C19: for every dependency tried, remove_dep comes first, then every listed
\* test in order whatever the earlier tests did, then add_dep for the same
\* dependency; test_passes_without_dep returns true exactly when every test
\* command succeeded.
C19_RemoveTestsAddInOrder ==
    /\ \A k \in 1..TriedDeps :
          LET base == SegmentBase(k)
              n == Len(test_targets)
          IN /\ Len(commands) >= base + n + 2
             /\ commands[base + 1].cmd = "remove deps"
             /\ commands[base + 1].arg = analyze_deps[k]
             /\ \A j \in 1..n :
                   /\ commands[base + 1 + j].cmd = "test"
                   /\ commands[base + 1 + j].arg = test_targets[j]
             /\ commands[base + n + 2].cmd = "add deps"
             /\ commands[base + n + 2].arg = analyze_deps[k]
             /\ analyze_deps[k] \in Reported <=>
                    \A j \in 1..n : commands[base + 1 + j].ok
    /\ ops_pc = "done" => Len(commands) = SegmentBase(Len(analyze_deps) + 1)
    /\ ops_pc = "add" =>
          success = \A j \in 1..Len(test_targets) :
                        commands[SegmentBase(dep_idx) + 1 + j].ok

\* a dependency whose first test failed: the second test ran and add_dep
\* followed
C19_Witness ==
    /\ ops_pc = "done"
    /\ Len(test_targets) >= 2
    /\ Len(analyze_deps) >= 1
    /\ ~commands[SegmentBase(1) + 2].ok
    /\ commands[SegmentBase(1) + 3].cmd = "test"
    /\ commands[SegmentBase(1) + Len(test_targets) + 2].cmd = "add deps"

\* C20: a dependency is added to the removable list only if it was removed
\* from the target while its tests ran.
C20_ReportedOnlyIfRemoved ==
    [][removable_deps' # removable_deps => CurrentDep \notin build_deps]_vars

-----------------------------------------------------------------------------
(* analyzer.rs: calculate_trigger_scores_map *)

AnTop == an_stack[Len(an_stack)]

AnTopRule == Rules[AnTop.target_name]

\* Rc::strong_count of the node of a label: the Rc the frame or the table
\* owns, and one clone for every entry of an immediate_dependents list that
\* points to it
strong_count(sbt, name) ==
    1 + Cardinality({e \in (DOMAIN sbt) \X (1..MaxEdges + 1) :
                        /\ e[2] <= Len(sbt[e[1]].immediate_dependents)
                        /\ sbt[e[1]].immediate_dependents[e[2]] = name})

\* Rc::get_mut returns Some only for an Rc that is not shared
get_mut_is_some(sbt, name) == strong_count(sbt, name) = 1

InitAnalyzer ==
    /\ target \in Requests
    /\ \E present \in {Labels, Labels \ {LabelD}} :
       \E da \in SeqsUpTo(After(LabelA), MaxDeps) :
       \E db \in SeqsUpTo(After(LabelB), MaxDeps) :
       \E dc \in SeqsUpTo(After(LabelC), MaxDeps) :
          /\ Len(da) + Len(db) + Len(dc) <= MaxEdges
          /\ deps_graph = GraphOf(present,
                 (LabelA :> da) @@ (LabelB :> db) @@ (LabelC :> dc) @@ (LabelD :> <<>>))
    /\ \E h \in Histories : repo = RepoOf(h)
    /\ commits_by_target = EmptyMap
    /\ commits_specific_to_target = EmptyMap
    /\ score_by_target = EmptyMap
    /\ todo = {}
    /\ stack = <<>>
    /\ pc = "idle"
    /\ result = EmptyMap
    /\ duplicate_deps = {}
    /\ unique_deps = EmptyMap
    /\ deps = <<>>
    /\ GitIdle
    /\ OpsIdle
    /\ MainIdle
    /\ an_commits_by_target = EmptyMap
    /\ an_score_by_target = EmptyMap
    /\ an_todo = {}
    /\ an_stack = <<>>
    /\ an_pc = "start"
    /\ an_result = EmptyMap

\* calculate_trigger_scores_map up to the first call of the inner function
AnalyzerStart ==
    /\ UNCHANGED <<alg_vars, git_vars, ops_vars, main_vars>>
    /\ an_pc = "start"
    /\ IF IsWildcard(target)
       THEN IF Len(Chars(target)) < 4
            THEN /\ an_pc' = "panic"
                 /\ UNCHANGED <<an_todo, an_stack>>
            ELSE /\ an_todo' = WildcardMatches(target, deps_graph)
                 /\ an_pc' = "seeds"
                 /\ UNCHANGED an_stack
       ELSE IF target \in DOMAIN Rules
            THEN /\ an_stack' = <<NewFrame(target)>>
                 /\ an_pc' = "inner"
                 /\ UNCHANGED an_todo
            ELSE /\ an_pc' = "err"
                 /\ UNCHANGED <<an_todo, an_stack>>
    /\ UNCHANGED <<an_commits_by_target, an_score_by_target, an_result>>

\* one iteration of the wildcard loop
AnalyzerSeed(t) ==
    /\ UNCHANGED <<alg_vars, git_vars, ops_vars, main_vars>>
    /\ an_pc = "seeds"
    /\ t \in an_todo
    /\ an_todo' = an_todo \ {t}
    /\ IF t \in DOMAIN an_commits_by_target
       THEN UNCHANGED <<an_stack, an_pc>>
       ELSE /\ an_stack' = <<NewFrame(t)>>
            /\ an_pc' = "inner"
    /\ UNCHANGED <<an_commits_by_target, an_score_by_target, an_result>>

\* lines 128-135: and_modify on the entry of dep_target; unwrap panics when
\* get_mut returns None
RecordDependent(sbt, dep_target, parent, frames) ==
    IF dep_target \notin DOMAIN sbt
    THEN /\ an_score_by_target' = sbt
         /\ an_stack' = frames
         /\ an_pc' = "inner"
    ELSE IF get_mut_is_some(sbt, dep_target)
    THEN /\ an_score_by_target' = PushDependent(sbt, dep_target, parent)
         /\ an_stack' = frames
         /\ an_pc' = "inner"
    ELSE /\ an_score_by_target' = sbt
         /\ an_stack' = frames
         /\ an_pc' = "get_mut_none"

\* the dependency loop meets a dependency whose commit set is cached
AnalyzerDepCached ==
    /\ UNCHANGED <<alg_vars, git_vars, ops_vars, main_vars>>
    /\ an_pc = "inner"
    /\ AnTop.i <= Len(AnTopRule.dep_targets)
    /\ LET dep_target == AnTopRule.dep_targets[AnTop.i] IN
       /\ dep_target \in DOMAIN an_commits_by_target
       /\ RecordDependent(an_score_by_target, dep_target, AnTop.target_name,
              [an_stack EXCEPT ![Len(an_stack)] =
                  [@ EXCEPT !.all_commits = @ \cup an_commits_by_target[dep_target],
                            !.i = @ + 1]])
    /\ UNCHANGED <<an_commits_by_target, an_todo, an_result>>

\* the dependency loop descends into a dependency that is not cached
AnalyzerDepEnter ==
    /\ UNCHANGED <<alg_vars, git_vars, ops_vars, main_vars>>
    /\ an_pc = "inner"
    /\ AnTop.i <= Len(AnTopRule.dep_targets)
    /\ LET dep_target == AnTopRule.dep_targets[AnTop.i] IN
       /\ dep_target \notin DOMAIN an_commits_by_target
       /\ dep_target \in DOMAIN Rules
       /\ an_stack' = Append(an_stack, NewFrame(dep_target))
    /\ UNCHANGED <<an_commits_by_target, an_score_by_target, an_todo, an_pc, an_result>>

\* the dependency is not in the graph: the error propagates through every `?`
AnalyzerDepNotFound ==
    /\ UNCHANGED <<alg_vars, git_vars, ops_vars, main_vars>>
    /\ an_pc = "inner"
    /\ AnTop.i <= Len(AnTopRule.dep_targets)
    /\ LET dep_target == AnTopRule.dep_targets[AnTop.i] IN
       /\ dep_target \notin DOMAIN an_commits_by_target
       /\ dep_target \notin DOMAIN Rules
    /\ an_stack' = <<>>
    /\ an_pc' = "err"
    /\ UNCHANGED <<an_commits_by_target, an_score_by_target, an_todo, an_result>>

\* lines 137-155, and lines 121-135 of the caller the value is returned to
AnalyzerFinish ==
    /\ UNCHANGED <<alg_vars, git_vars, ops_vars, main_vars>>
    /\ an_pc = "inner"
    /\ AnTop.i > Len(AnTopRule.dep_targets)
    /\ LET name == AnTop.target_name
           all_commits == AnTop.all_commits \cup CommitsTouchingFiles(AnTopRule)
           inserted == Put(an_score_by_target, name,
                           [name |-> name,
                            rebuilds |-> Cardinality(all_commits),
                            immediate_dependents |-> <<>>])
           n == Len(an_stack)
       IN
       IF ~get_mut_is_some(an_score_by_target, name)
       THEN \* line 151: target_rc has been cloned into a dependency's list
            /\ an_pc' = "get_mut_none"
            /\ UNCHANGED <<an_commits_by_target, an_score_by_target, an_stack>>
       ELSE /\ an_commits_by_target' = Put(an_commits_by_target, name, all_commits)
            /\ IF n = 1
               THEN /\ an_stack' = <<>>
                    /\ an_score_by_target' = inserted
                    /\ an_pc' = "seeds"
               ELSE RecordDependent(inserted, name, an_stack[n - 1].target_name,
                        [SubSeq(an_stack, 1, n - 1) EXCEPT ![n - 1] =
                            [@ EXCEPT !.all_commits = @ \cup all_commits,
                                      !.i = @ + 1]])
    /\ UNCHANGED <<an_todo, an_result>>

\* lines 80-96: the second pass over score_by_target
AnalyzerSecondPass ==
    /\ UNCHANGED <<alg_vars, git_vars, ops_vars, main_vars>>
    /\ an_pc = "seeds"
    /\ an_todo = {}
    /\ an_result' =
           [name \in DOMAIN an_score_by_target |->
               LET t == an_score_by_target[name] IN
               [name |-> name,
                rebuilds |-> t.rebuilds,
                immediate_dependents |-> Len(t.immediate_dependents),
                total_dependents |->
                    recursively_calculate_total_dependents(an_score_by_target, name),
                score |-> t.rebuilds * Len(t.immediate_dependents)]]
    /\ an_pc' = "ok"
    /\ UNCHANGED <<an_commits_by_target, an_score_by_target, an_todo, an_stack>>

NextAnalyzer ==
    \/ AnalyzerStart
    \/ \E t \in Labels : AnalyzerSeed(t)
    \/ AnalyzerDepCached
    \/ AnalyzerDepEnter
    \/ AnalyzerDepNotFound
    \/ AnalyzerFinish
    \/ AnalyzerSecondPass

SpecAnalyzer == InitAnalyzer /\ [][NextAnalyzer]_vars

\* C21: on a graph in which every referenced label has a rule,
\* analyzer::calculate_trigger_scores_map never fails in an
\* Rc::get_mut(..).unwrap(): neither on a dependency's node when a dependent
\* is recorded nor on the target's own node when rebuilds is stored.
C21_GetMutNeverFails ==
    ~MissingReferenced => an_pc # "get_mut_none"

-----------------------------------------------------------------------------
(* main.rs: calculate_trigger_scores, over bazel.rs get_source_files *)

\* mutant: the dependencies are not descended into
get_source_files_inner_OwnFilesOnly(graph, tgt, i, st) ==
    IF tgt \notin DOMAIN graph.rules_by_label
    THEN [st EXCEPT !.err = TRUE]
    ELSE [st EXCEPT !.source_files = @ \o graph.rules_by_label[tgt].source_files,
                    !.visited_targets = @ \cup {tgt}]

\* get_source_files_inner: st = [source_files, visited_targets, err]; i = 0 is
\* the lookup of the entry, i >= 1 the loop over its dep_targets
RECURSIVE get_source_files_inner(_, _, _, _)
get_source_files_inner(graph, tgt, i, st) ==
    IF st.err THEN st
    ELSE IF tgt \notin DOMAIN graph.rules_by_label
    THEN [st EXCEPT !.err = TRUE]
    ELSE LET entry == graph.rules_by_label[tgt] IN
         IF i = 0
         THEN get_source_files_inner(graph, tgt, 1,
                  [st EXCEPT !.source_files = @ \o entry.source_files])
         ELSE IF i > Len(entry.dep_targets)
         THEN [st EXCEPT !.visited_targets = @ \cup {tgt}]
         ELSE LET dep_target == entry.dep_targets[i] IN
              IF dep_target \in st.visited_targets
              THEN get_source_files_inner(graph, tgt, i + 1, st)
              ELSE get_source_files_inner(graph, tgt, i + 1,
                       get_source_files_inner(graph, dep_target, 0, st))

get_source_files(graph, tgt) ==
    get_source_files_inner(graph, tgt, 0,
        [source_files |-> <<>>, visited_targets |-> {}, err |-> FALSE])

\* calculate_trigger_scores of main.rs
MainTriggerScores ==
    /\ UNCHANGED <<alg_vars, git_vars, ops_vars, an_vars>>
    /\ main_pc = "start"
    /\ LET found == get_source_files(deps_graph, target) IN
       IF found.err
       THEN /\ main_pc' = "err"
            /\ UNCHANGED trigger_score
       ELSE /\ trigger_score' =
                   Cardinality(UNION {CommitsOfSourceFile(found.source_files[k]) :
                                          k \in 1..Len(found.source_files)})
            /\ main_pc' = "ok"

\* both computations are given the same target, which is no wildcard, the
\* same graph and the same commit index
InitScore ==
    /\ target \in {t \in Requests : ~IsWildcard(t)}
    /\ \E present \in {Labels, Labels \ {LabelD}} :
       \E da \in SeqsUpTo(After(LabelA), MaxDeps) :
       \E db \in SeqsUpTo(After(LabelB), MaxDeps) :
       \E dc \in SeqsUpTo(After(LabelC), MaxDeps) :
          /\ Len(da) + Len(db) + Len(dc) <= MaxEdges
          /\ deps_graph = GraphOf(present,
                 (LabelA :> da) @@ (LabelB :> db) @@ (LabelC :> dc) @@ (LabelD :> <<>>))
    /\ \E h \in Histories : repo = RepoOf(h)
    /\ commits_by_target = EmptyMap
    /\ commits_specific_to_target = EmptyMap
    /\ score_by_target = EmptyMap
    /\ todo = {}
    /\ stack = <<>>
    /\ pc = "start"
    /\ result = EmptyMap
    /\ duplicate_deps = {}
    /\ unique_deps = EmptyMap
    /\ deps = <<>>
    /\ GitIdle
    /\ OpsIdle
    /\ AnalyzerIdle
    /\ trigger_score = 0
    /\ main_pc = "start"

NextScore ==
    \/ Start
    \/ DepCached
    \/ DepEnter
    \/ DepNotFound
    \/ Finish
    \/ SecondPass
    \/ MainTriggerScores

SpecScore == InitScore /\ [][NextScore]_vars

\* C22: for a target that is no wildcard the number main.rs computes from
\* get_source_files equals rebuilds of the target in the table of the
\* memoized calculate_trigger_scores, diamonds and dependency lists that
\* name a label twice included.
C22_MainScoreEqualsRebuilds ==
    (pc = "ok" /\ main_pc # "start") =>
        /\ main_pc = "ok"
        /\ trigger_score = result[target].rebuilds

\* both computations returned on a graph where a label is reached through two
\* targets and some list names a label twice, with commits to count
C22_Witness ==
    /\ pc = "ok"
    /\ main_pc = "ok"
    /\ trigger_score >= 1
    /\ \E l \in Closure(deps_graph, target) :
          Cardinality({u \in DOMAIN result : l \in DirectDeps(deps_graph, u)}) >= 2
    /\ \E u \in DOMAIN result :
          \E i, k \in 1..Len(DepTargets(deps_graph, u)) :
              i # k /\ DepTargets(deps_graph, u)[i] = DepTargets(deps_graph, u)[k]

====
